---- MODULE Spec2Model ----
(***************************************************************************)
(* FintelAI (src/app.py): the result sanitizer of DocumentProcessor and    *)
(* the analysis run of main().                                             *)
(*                                                                         *)
(* A text is a sequence of one-character strings, so that json.loads, the  *)
(* fenced-block regular expression and str.find / str.rfind are computed   *)
(* character by character, as the code computes them.                      *)
(***************************************************************************)
EXTENDS Integers, Sequences, FiniteSets, TLC

\* ------------------------------------------------------------------ bounds

\* Segments concatenated into one raw engine output (sanitizer inputs).
MaxSegs == 4
\* Segments of prose before / after a fenced block.
MaxProse == 2
\* Uploaded documents in one analysis run.
MaxFiles == 2
\* Analysis runs in one session.
MaxRuns == 2

\* ------------------------------------------------------------- characters

Q == "\""
\* The backtick character (U+0060), which a TLA+ string cannot hold.
BT == "BACKTICK"
Digits == <<"0", "1", "2", "3", "4", "5", "6", "7", "8", "9">>
DigitSet == {Digits[i] : i \in 1..10}
DigitVal(c) == (CHOOSE i \in 1..10 : Digits[i] = c) - 1
\* json.decoder WHITESPACE and the whitespace class of the regular expression, over the alphabet used.
IsSpace(c) == c \in {" ", "\n"}

RECURSIVE Concat(_)
Concat(ss) == IF ss = <<>> THEN <<>> ELSE Head(ss) \o Concat(Tail(ss))

\* ------------------------------------------------------------ JSON values

NullV == [kind |-> "null", num |-> 0, str |-> <<>>, keys |-> <<>>, vals |-> <<>>]
TrueV == [NullV EXCEPT !.kind = "true"]
FalseV == [NullV EXCEPT !.kind = "false"]
NumV(n) == [NullV EXCEPT !.kind = "num", !.num = n]
StrV(s) == [NullV EXCEPT !.kind = "str", !.str = s]
ArrV(items) == [NullV EXCEPT !.kind = "arr", !.vals = items]
\* A dict: keys in insertion order, vals[i] the value of keys[i].
ObjV(ks, vs) == [NullV EXCEPT !.kind = "obj", !.keys = ks, !.vals = vs]
EmptyDict == ObjV(<<>>, <<>>)

KeySet(v) == {v.keys[i] : i \in 1..Len(v.keys)}
KeyIndex(ks, k) == CHOOSE i \in 1..Len(ks) : ks[i] = k
\* dict[k]
Lookup(v, k) == v.vals[KeyIndex(v.keys, k)]
\* dict[k] = x: an existing key keeps its position, a new key is appended.
DictPut(ks, vs, k, x) ==
    IF \E i \in 1..Len(ks) : ks[i] = k
    THEN [keys |-> ks, vals |-> [vs EXCEPT ![KeyIndex(ks, k)] = x]]
    ELSE [keys |-> Append(ks, k), vals |-> Append(vs, x)]
\* dict equality does not look at the insertion order.
DictEq(a, b) ==
    /\ a.kind = "obj" /\ b.kind = "obj"
    /\ KeySet(a) = KeySet(b)
    /\ \A k \in KeySet(a) : Lookup(a, k) = Lookup(b, k)

\* Python truth value of a decoded JSON value (if extracted_json:).
Truthy(v) ==
    CASE v.kind = "null" -> FALSE
      [] v.kind = "false" -> FALSE
      [] v.kind = "true" -> TRUE
      [] v.kind = "num" -> v.num # 0
      [] v.kind = "str" -> v.str # <<>>
      [] v.kind = "arr" -> v.vals # <<>>
      [] v.kind = "obj" -> v.keys # <<>>

\* -------------------------------------------------------------- json.loads

Fail == [ok |-> FALSE, pos |-> 0, val |-> NullV]
Ok(p, v) == [ok |-> TRUE, pos |-> p, val |-> v]

RECURSIVE SkipWs(_, _)
SkipWs(t, i) == IF i <= Len(t) /\ IsSpace(t[i]) THEN SkipWs(t, i + 1) ELSE i

At(t, i, c) == i <= Len(t) /\ t[i] = c
StartsWith(t, i, w) ==
    /\ i + Len(w) - 1 <= Len(t)
    /\ \A k \in 1..Len(w) : t[i + k - 1] = w[k]

\* scanstring: t[i] is the opening quote; the string ends at the next quote
\* (the alphabet holds no backslash and no control character but "\n",
\* which strict mode refuses inside a string).
ParseString(t, i) ==
    IF \E j \in (i + 1)..Len(t) : t[j] = Q
    THEN LET j == CHOOSE j \in (i + 1)..Len(t) :
                      t[j] = Q /\ \A k \in (i + 1)..(j - 1) : t[k] # Q
             s == SubSeq(t, i + 1, j - 1)
         IN  IF \E k \in 1..Len(s) : s[k] = "\n" THEN Fail ELSE Ok(j + 1, StrV(s))
    ELSE Fail

RECURSIVE DigitsEnd(_, _)
DigitsEnd(t, i) == IF i <= Len(t) /\ t[i] \in DigitSet THEN DigitsEnd(t, i + 1) ELSE i
RECURSIVE DecimalValue(_)
DecimalValue(ds) ==
    IF ds = <<>> THEN 0
    ELSE 10 * DecimalValue(SubSeq(ds, 1, Len(ds) - 1)) + DigitVal(ds[Len(ds)])

\* NUMBER_RE, integer part: (0|[1-9]\d*); t[i] is a digit.
ParseNumber(t, i) ==
    IF t[i] = "0" THEN Ok(i + 1, NumV(0))
    ELSE LET e == DigitsEnd(t, i) IN Ok(e, NumV(DecimalValue(SubSeq(t, i, e - 1))))

RECURSIVE ParseValue(_, _), ParseMembers(_, _, _, _), ParseItems(_, _, _)

\* JSONObject after a key's opening quote at i: "key" ws : ws value ws (, ws "key" ... | })
ParseMembers(t, i, ks, vs) ==
    LET key == ParseString(t, i) IN
    IF ~key.ok THEN Fail
    ELSE LET c == SkipWs(t, key.pos) IN
         IF ~At(t, c, ":") THEN Fail
         ELSE LET v == ParseValue(t, SkipWs(t, c + 1)) IN
              IF ~v.ok THEN Fail
              ELSE LET d == DictPut(ks, vs, key.val.str, v.val)
                       e == SkipWs(t, v.pos)
                   IN  IF At(t, e, "}") THEN Ok(e + 1, ObjV(d.keys, d.vals))
                       ELSE IF At(t, e, ",")
                            THEN LET n == SkipWs(t, e + 1) IN
                                 IF At(t, n, Q) THEN ParseMembers(t, n, d.keys, d.vals)
                                 ELSE Fail
                            ELSE Fail

\* JSONArray after the first item's start at i: value ws (, ws value ... | ])
ParseItems(t, i, items) ==
    LET v == ParseValue(t, i) IN
    IF ~v.ok THEN Fail
    ELSE LET e == SkipWs(t, v.pos) IN
         IF At(t, e, "]") THEN Ok(e + 1, ArrV(Append(items, v.val)))
         ELSE IF At(t, e, ",") THEN ParseItems(t, SkipWs(t, e + 1), Append(items, v.val))
              ELSE Fail

\* scanner.py_make_scanner._scan_once
ParseValue(t, i) ==
    IF i > Len(t) THEN Fail
    ELSE CASE t[i] = Q -> ParseString(t, i)
           [] t[i] = "{" ->
                LET n == SkipWs(t, i + 1) IN
                IF At(t, n, "}") THEN Ok(n + 1, EmptyDict)
                ELSE IF At(t, n, Q) THEN ParseMembers(t, n, <<>>, <<>>) ELSE Fail
           [] t[i] = "[" ->
                LET n == SkipWs(t, i + 1) IN
                IF At(t, n, "]") THEN Ok(n + 1, ArrV(<<>>))
                ELSE ParseItems(t, n, <<>>)
           [] StartsWith(t, i, <<"n", "u", "l", "l">>) -> Ok(i + 4, NullV)
           [] StartsWith(t, i, <<"t", "r", "u", "e">>) -> Ok(i + 4, TrueV)
           [] StartsWith(t, i, <<"f", "a", "l", "s", "e">>) -> Ok(i + 5, FalseV)
           [] t[i] \in DigitSet -> ParseNumber(t, i)
           [] OTHER -> Fail

\* json.loads(text): leading whitespace, one value, trailing whitespace, end of
\* text ("Extra data" otherwise). ok = FALSE is JSONDecodeError.
JsonLoads(t) ==
    LET v == ParseValue(t, SkipWs(t, 1)) IN
    IF v.ok /\ SkipWs(t, v.pos) = Len(t) + 1 THEN Ok(v.pos, v.val) ELSE Fail

\* ------------------------------------------------- the fenced-block search

FenceTag == <<BT, BT, BT, "j", "s", "o", "n">>
Fence == <<BT, BT, BT>>

\* A closing brace at e that optional whitespace and a fence follow.
ClosesAt(t, e) == At(t, e, "}") /\ StartsWith(t, SkipWs(t, e + 1), Fence)
\* The match of the pattern  FENCE json \s* ( { .*? } ) \s* FENCE  that starts at i
\* (re.DOTALL, FENCE being three backticks): the
\* group runs from the '{' after the tag and its whitespace to the first '}'
\* that whitespace and a fence follow.
\* (mutant of GroupStart: the pattern without its whitespace class after the tag)
GroupStartNoSpace(t, i) == i + Len(FenceTag)
GroupStart(t, i) == SkipWs(t, i + Len(FenceTag))
MatchesAt(t, i) ==
    /\ StartsWith(t, i, FenceTag)
    /\ At(t, GroupStart(t, i), "{")
    /\ \E e \in (GroupStart(t, i) + 1)..Len(t) : ClosesAt(t, e)
\* re.search: the leftmost start that matches; found = FALSE is None.
FenceSearch(t) ==
    IF \E i \in 1..Len(t) : MatchesAt(t, i)
    THEN LET i == CHOOSE i \in 1..Len(t) :
                      MatchesAt(t, i) /\ \A k \in 1..(i - 1) : ~MatchesAt(t, k)
             b == GroupStart(t, i)
             e == CHOOSE e \in (b + 1)..Len(t) :
                      ClosesAt(t, e) /\ \A k \in (b + 1)..(e - 1) : ~ClosesAt(t, k)
         IN  [found |-> TRUE, group |-> SubSeq(t, b, e)]
    ELSE [found |-> FALSE, group |-> <<>>]

\* str.find(c) and str.rfind(c): 0-based index, -1 when absent.
Find(t, c) ==
    IF \E i \in 1..Len(t) : t[i] = c
    THEN (CHOOSE i \in 1..Len(t) : t[i] = c /\ \A k \in 1..(i - 1) : t[k] # c) - 1
    ELSE -1
RFind(t, c) ==
    IF \E i \in 1..Len(t) : t[i] = c
    THEN (CHOOSE i \in 1..Len(t) : t[i] = c /\ \A k \in (i + 1)..Len(t) : t[k] # c) - 1
    ELSE -1
\* text[start:end] for 0 <= start, 0 <= end.
Slice(t, start, end) == SubSeq(t, start + 1, end)

\* The brace span, text[text.find('{') : text.rfind('}') + 1].
BraceSpan(t) == Slice(t, Find(t, "{"), RFind(t, "}") + 1)
HasBraceSpan(t) == Find(t, "{") # -1 /\ RFind(t, "}") + 1 # 0

\* DocumentProcessor._sanitize_json_output
\* The second try block holds both the fenced-block layer and the brace-span
\* layer: an exception of json.loads on the fenced group leaves the block.
SanitizeFencedOrSpan(t) ==
    LET m == FenceSearch(t) IN
    IF m.found
    THEN LET g == JsonLoads(m.group) IN IF g.ok THEN g.val ELSE EmptyDict
    ELSE IF HasBraceSpan(t)
         THEN LET s == JsonLoads(BraceSpan(t)) IN IF s.ok THEN s.val ELSE EmptyDict
         ELSE EmptyDict

_sanitize_json_output(t) ==
    LET d == JsonLoads(t) IN IF d.ok THEN d.val ELSE SanitizeFencedOrSpan(t)

\* -------------------------------------------------------------- json.dumps

RECURSIVE ToDigits(_)
ToDigits(n) == IF n < 10 THEN <<Digits[n + 1]>> ELSE ToDigits(n \div 10) \o <<Digits[(n % 10) + 1]>>

\* One  "key": value  item of a flat dict (item separator ", ", key separator ": ").
RECURSIVE DumpItems(_, _, _)
DumpItems(ks, vs, i) ==
    IF i > Len(ks) THEN <<>>
    ELSE (IF i > 1 THEN <<",", " ">> ELSE <<>>)
         \o <<Q>> \o ks[i] \o <<Q, ":", " ">>
         \o (IF vs[i].kind = "num" THEN ToDigits(vs[i].num) ELSE <<Q>> \o vs[i].str \o <<Q>>)
         \o DumpItems(ks, vs, i + 1)
\* json.dumps of a flat dict of numbers (or strings), keys in insertion order.
JsonDumps(v) == <<"{">> \o DumpItems(v.keys, v.vals, 1) \o <<"}">>

\* ------------------------------------------------------- DOCUMENT_CONFIGS

DocTypes == <<"Salary Slip", "Bank Statement", "Balance Sheet", "Invoice", "Profit and Loss">>
DocTypeSet == {DocTypes[i] : i \in 1..Len(DocTypes)}
\* DOCUMENT_CONFIGS[doc_type]['fields'], each field name a text
Fields(doc_type) ==
    CASE doc_type = "Salary Slip" ->
         << <<"B", "a", "s", "i", "c", " ", "S", "a", "l", "a", "r", "y">>,
            <<"H", "R", "A">>,
            <<"D", "A">>,
            <<"P", "F">>,
            <<"N", "e", "t", " ", "S", "a", "l", "a", "r", "y">>,
            <<"G", "r", "o", "s", "s", " ", "S", "a", "l", "a", "r", "y">> >>
      [] doc_type = "Bank Statement" ->
         << <<"O", "p", "e", "n", "i", "n", "g", " ", "B", "a", "l", "a", "n", "c", "e">>,
            <<"C", "l", "o", "s", "i", "n", "g", " ", "B", "a", "l", "a", "n", "c", "e">>,
            <<"T", "o", "t", "a", "l", " ", "C", "r", "e", "d", "i", "t", "s">>,
            <<"T", "o", "t", "a", "l", " ", "D", "e", "b", "i", "t", "s">> >>
      [] doc_type = "Balance Sheet" ->
         << <<"T", "o", "t", "a", "l", " ", "A", "s", "s", "e", "t", "s">>,
            <<"T", "o", "t", "a", "l", " ", "L", "i", "a", "b", "i", "l", "i", "t", "i", "e", "s">>,
            <<"C", "u", "r", "r", "e", "n", "t", " ", "A", "s", "s", "e", "t", "s">>,
            <<"C", "u", "r", "r", "e", "n", "t", " ", "L", "i", "a", "b", "i", "l", "i", "t", "i", "e", "s">>,
            <<"N", "e", "t", " ", "W", "o", "r", "t", "h">> >>
      [] doc_type = "Invoice" ->
         << <<"I", "n", "v", "o", "i", "c", "e", " ", "A", "m", "o", "u", "n", "t">>,
            <<"T", "a", "x", " ", "A", "m", "o", "u", "n", "t">>,
            <<"T", "o", "t", "a", "l", " ", "A", "m", "o", "u", "n", "t">>,
            <<"D", "i", "s", "c", "o", "u", "n", "t", " ", "A", "m", "o", "u", "n", "t">> >>
      [] doc_type = "Profit and Loss" ->
         << <<"R", "e", "v", "e", "n", "u", "e">>,
            <<"E", "x", "p", "e", "n", "s", "e", "s">>,
            <<"N", "e", "t", " ", "P", "r", "o", "f", "i", "t">>,
            <<"G", "r", "o", "s", "s", " ", "P", "r", "o", "f", "i", "t">>,
            <<"O", "p", "e", "r", "a", "t", "i", "n", "g", " ", "P", "r", "o", "f", "i", "t">> >>

\* ------------------------------------------------------------------ state

VARIABLES
    \* the sanitizer applied to one raw text
    raw_text, fenced, f_prefix, f_map, f_suffix, sanitized, san_pc,
    \* the widgets, the environment and the session state
    w_doc_type, w_files, api_key, data, current_doc_type,
    \* one script run of main(): its locals and what it shows
    pc, doc_type, uploaded_files, idx, all_data, tmp_path, progress, notices,
    \* the world: temporary files on disk, engine invocations
    tmp_files, invocations,
    \* history: what each document of the run met, whether a table was stored
    \* when the run started, the selector and uploads the latest run started
    \* with, the analysis runs so far
    doc_log, table_at_start, run_start, runs

san_vars == <<raw_text, fenced, f_prefix, f_map, f_suffix, sanitized, san_pc>>
main_vars == <<w_doc_type, w_files, api_key, data, current_doc_type, pc, doc_type,
               uploaded_files, idx, all_data, tmp_path, progress, notices,
               tmp_files, invocations, doc_log, table_at_start, run_start, runs>>
vars == <<san_vars, main_vars>>

\* ------------------------------------------------- the sanitizer on a text

\* Pieces a raw engine output is put together from.
SanSegments ==
    { FenceTag, Fence,
      <<"{", Q, "a", Q, ":", "1", "}">>,
      <<"{", Q, "a", Q, ":", Q, "}">>,
      <<Q, "}">>,
      <<" ">>, <<"o", "k">>, <<"7">>,
      <<"n", "u", "l", "l">>, <<"[", "1", "]">>, <<Q, "x", Q>> }
SegTexts(S, n) == {Concat(ss) : ss \in UNION {[1..k -> S] : k \in 0..n}}

\* Pieces of the prose around a fenced block.
ProseSegments ==
    { <<"o", "k">>, <<" ">>, <<"{">>, <<"}">>, FenceTag, Fence,
      <<"{", Q, "n", Q, ":", Q>> }
ProseSuffixes == SegTexts(ProseSegments, 1) \cup {<<Q, "}">>}
\* Flat field -> number mappings, keys in either insertion order.
FieldKeys == {<<"H", "R", "A">>, <<"P", "F">>}
FieldNums == {0, 12}
FlatMaps ==
    {EmptyDict}
    \cup {ObjV(<<k>>, <<NumV(n)>>) : k \in FieldKeys, n \in FieldNums}
    \cup {ObjV(<<p[1], p[2]>>, <<NumV(n1), NumV(n2)>>) :
            p \in {q \in FieldKeys \X FieldKeys : q[1] # q[2]},
            n1 \in FieldNums, n2 \in FieldNums}
\* A fenced json block holding the serialization of m, gap between fence and object.
FencedBlock(m, gap) == FenceTag \o gap \o JsonDumps(m) \o gap \o Fence

SanIdle ==
    /\ raw_text = <<>> /\ fenced = FALSE
    /\ f_prefix = <<>> /\ f_map = EmptyDict /\ f_suffix = <<>>
    /\ sanitized = EmptyDict /\ san_pc = "idle"

\* result = self._sanitize_json_output(text)
Sanitize ==
    /\ san_pc = "call"
    /\ sanitized' = _sanitize_json_output(raw_text)
    /\ san_pc' = "done"
    /\ UNCHANGED <<raw_text, fenced, f_prefix, f_map, f_suffix, main_vars>>

\* ------------------------------------------------------------- main(): data

DocumentKey == <<"D", "o", "c", "u", "m", "e", "n", "t">>
\* Names of uploaded files.
DocNames == << <<"a", ".", "p", "n", "g">>, <<"b", ".", "j", "p", "g">>,
               <<"c", ".", "p", "n", "g">>, <<"d", ".", "j", "p", "g">>,
               <<"e", ".", "p", "n", "g">> >>
Docs == {DocNames[i] : i \in 1..MaxFiles}
SeqRange(q) == {q[i] : i \in 1..Len(q)}
DocIndex(d) == CHOOSE i \in 1..Len(DocNames) : DocNames[i] = d
\* What the uploader can hold: up to MaxFiles distinct files in upload order
\* (the files are named in the order they are uploaded in).
Uploads ==
    {fs \in UNION {[1..n -> Docs] : n \in 1..MaxFiles} :
        \A i, j \in 1..Len(fs) : i < j => DocIndex(fs[i]) < DocIndex(fs[j])}

\* st.session_state.data: None, or a DataFrame (columns, and one dict per row
\* with a cell for every column).
NoData == [present |-> FALSE, cols |-> <<>>, rows |-> <<>>]
NaNV == [NullV EXCEPT !.kind = "nan"]
NoPath == <<0, 0>>

\* The notices a script run shows.
Notice(level, kind, doc) == [level |-> level, kind |-> kind, doc |-> doc]
NoDoc == <<>>

\* What the external engine can do with one invocation: exit non-zero, run
\* into the timeout, fail to start, or exit 0 with some standard output.
EngineStdout(fields) ==
    { \* the structure asked for, every field present
      JsonDumps(ObjV(fields, [i \in 1..Len(fields) |-> NumV(i * 10)])),
      \* prose around a fenced block that holds the first field only
      <<"o", "k", "\n">>
          \o FencedBlock(ObjV(<<fields[1]>>, <<NumV(7)>>), <<"\n">>) \o <<"\n">>,
      \* a bare number
      <<"4", "2">>,
      \* prose without any JSON
      <<"n", "o", " ", "d", "a", "t", "a">> }
EngineOutcomes(fields) ==
    {[kind |-> k, text |-> <<>>] : k \in {"exit_nonzero", "timeout", "oserror"}}
    \cup {[kind |-> "stdout", text |-> t] : t \in EngineStdout(fields)}

\* ---------------------------------------------- DocumentProcessor.run_ocr

\* (mutant of CredentialMissing: the credential check never fires)
CredentialNeverMissing(key) == FALSE
\* if not os.getenv("GROQ_API_KEY")
CredentialMissing(key) == ~key

\* run_ocr(file_path, fields) with the engine doing `outcome`: the value
\* returned (none = None), the st.error it shows, whether subprocess.run ran.
OcrReturn(isnone, val, errs, invoked) ==
    [none |-> isnone, val |-> val, errs |-> errs, invoked |-> invoked]
run_ocr(key, outcome, doc) ==
    IF CredentialMissing(key)
    THEN OcrReturn(TRUE, NullV, <<Notice("error", "config", doc)>>, FALSE)
    ELSE CASE outcome.kind = "exit_nonzero" ->
                OcrReturn(TRUE, NullV, <<Notice("error", "engine", doc)>>, TRUE)
           [] outcome.kind = "timeout" ->
                OcrReturn(TRUE, NullV, <<Notice("error", "timeout", doc)>>, TRUE)
           [] outcome.kind = "oserror" ->
                OcrReturn(TRUE, NullV, <<Notice("error", "system", doc)>>, TRUE)
           [] outcome.kind = "stdout" ->
                OcrReturn(FALSE, _sanitize_json_output(outcome.text), <<>>, TRUE)

\* -------------------------------------------------------- main(): one run

\* The body of the try block for one document, given run_ocr's return:
\* the rows after it and the notice it shows.
\*   a truthy dict: row = copy, row['Document'] = file.name, appended;
\*   a truthy non-dict: .copy() or the item assignment raises, caught by
\*     `except Exception` (st.error);
\*   None or falsy: st.warning.
HandleExtracted(rows, r, doc) ==
    IF ~r.none /\ Truthy(r.val)
    THEN IF r.val.kind = "obj"
         THEN LET d == DictPut(r.val.keys, r.val.vals, DocumentKey, StrV(doc))
              IN  [rows |-> Append(rows, ObjV(d.keys, d.vals)), shown |-> <<>>]
         ELSE [rows |-> rows, shown |-> <<Notice("error", "processing", doc)>>]
    ELSE [rows |-> rows, shown |-> <<Notice("warning", "no_valid_data", doc)>>]

\* pd.DataFrame(all_data).columns: the keys of the rows, by first appearance.
RECURSIVE AddCols(_, _, _)
AddCols(cols, ks, i) ==
    IF i > Len(ks) THEN cols
    ELSE AddCols(IF ks[i] \in SeqRange(cols) THEN cols ELSE Append(cols, ks[i]), ks, i + 1)
RECURSIVE FrameCols(_, _, _)
FrameCols(cols, rows, i) ==
    IF i > Len(rows) THEN cols ELSE FrameCols(AddCols(cols, rows[i].keys, 1), rows, i + 1)
\* cols = ['Document'] + [c for c in df.columns if c != 'Document']
DocumentFirst(cols) == <<DocumentKey>> \o SelectSeq(cols, LAMBDA c : c # DocumentKey)
\* A row of the frame: a cell per column, NaN where the dict has no such key.
FrameRow(cols, row) ==
    ObjV(cols, [i \in 1..Len(cols) |->
                   IF cols[i] \in KeySet(row) THEN Lookup(row, cols[i]) ELSE NaNV])
\* df = pd.DataFrame(all_data); st.session_state.data = df[cols]
DataFrame(rows) ==
    LET cols == DocumentFirst(FrameCols(<<>>, rows, 1)) IN
    [present |-> TRUE, cols |-> cols,
     rows |-> [i \in 1..Len(rows) |-> FrameRow(cols, rows[i])]]

\* (mutant of ResetData: the stored table survives the start of a run)
KeepData(d) == d
\* st.session_state.data = None, at the start of a run.
ResetData(d) == NoData
\* st.session_state.current_doc_type = doc_type, at the start of a run.
RunDocType(selected, stored) == selected
\* (mutant of RerunDocType: every script run stores the selected type)
RerunTakesSelected(selected, stored) == selected
\* if 'current_doc_type' not in st.session_state: ... (the key is there after
\* the first script run, so a rerun leaves the stored type alone).
RerunDocType(selected, stored) == stored
\* load_dotenv() at the top of the script: a credential put into .env since
\* the last run is picked up, one already in the environment stays.
LoadDotenv(key) == {key, TRUE}

ScriptEnded == pc \in {"idle", "done", "aborted"}

MainInit ==
    /\ w_doc_type = DocTypes[1] /\ w_files = <<>>
    /\ api_key \in BOOLEAN
    /\ data = NoData /\ current_doc_type = DocTypes[1]
    /\ pc = "idle" /\ doc_type = DocTypes[1] /\ uploaded_files = <<>>
    /\ idx = 0 /\ all_data = <<>> /\ tmp_path = NoPath /\ progress = 0
    /\ notices = <<>> /\ tmp_files = {} /\ invocations = <<>>
    /\ doc_log = <<>> /\ table_at_start = FALSE
    /\ run_start = [doc_type |-> DocTypes[1], files |-> <<>>]
    /\ runs = 0

\* A script run that does not process: the page is drawn again from the
\* session state, the notices and locals of the previous run are gone.
Rerun(selected, files) ==
    /\ ScriptEnded
    /\ w_doc_type' = selected /\ w_files' = files
    /\ api_key' \in LoadDotenv(api_key)
    /\ current_doc_type' = RerunDocType(selected, current_doc_type)
    /\ pc' = "idle" /\ doc_type' = selected /\ uploaded_files' = files
    /\ idx' = 0 /\ all_data' = <<>> /\ tmp_path' = NoPath /\ progress' = 0
    /\ notices' = <<>> /\ invocations' = <<>> /\ doc_log' = <<>>
    /\ table_at_start' = FALSE
    /\ UNCHANGED <<data, tmp_files, run_start, runs, san_vars>>

\* The user picks another document type.
SelectDocType == \E t \in DocTypeSet \ {w_doc_type} : Rerun(t, w_files)
\* The user changes the uploaded files.
Upload == \E fs \in (Uploads \cup {<<>>}) \ {w_files} : Rerun(w_doc_type, fs)
\* The button is pressed with nothing uploaded: process_btn and uploaded_files is false.
AnalyzeNothing == w_files = <<>> /\ Rerun(w_doc_type, w_files)

\* if process_btn and uploaded_files: the state is reset, the loop is entered.
StartAnalysis ==
    /\ ScriptEnded /\ w_files # <<>> /\ runs < MaxRuns
    /\ api_key' \in LoadDotenv(api_key)
    /\ table_at_start' = data.present
    /\ run_start' = [doc_type |-> w_doc_type, files |-> w_files]
    /\ data' = ResetData(data)
    /\ current_doc_type' = RunDocType(w_doc_type, current_doc_type)
    /\ doc_type' = w_doc_type /\ uploaded_files' = w_files
    /\ all_data' = <<>> /\ idx' = 0 /\ progress' = 0 /\ tmp_path' = NoPath
    /\ notices' = <<>> /\ invocations' = <<>> /\ doc_log' = <<>>
    /\ runs' = runs + 1
    /\ pc' = "doc"
    /\ UNCHANGED <<w_doc_type, w_files, tmp_files, san_vars>>

\* with tempfile.NamedTemporaryFile(delete=False, ...) as tmp: tmp.write(...)
\* The file exists once it is created; these lines are outside the try
\* block, so an exception of write (or getvalue) leaves main().
BeginDocument ==
    /\ pc = "doc"
    /\ LET p == <<runs, idx + 1>> IN
       /\ tmp_files' = tmp_files \cup {p}
       /\ \/ /\ tmp_path' = p
             /\ pc' = "ocr"
             /\ UNCHANGED notices
          \/ /\ tmp_path' = NoPath
             /\ pc' = "aborted"
             /\ notices' = Append(notices, Notice("exception", "write", uploaded_files[idx + 1]))
    /\ UNCHANGED <<w_doc_type, w_files, api_key, data, current_doc_type, doc_type,
                   uploaded_files, idx, all_data, progress, invocations, doc_log,
                   table_at_start, run_start, runs, san_vars>>

\* try: run_ocr, the row or the notice; finally: the file is unlinked;
\* then progress_bar.progress((idx + 1) / len(uploaded_files)).
ProcessDocument ==
    /\ pc = "ocr"
    /\ \E outcome \in EngineOutcomes(Fields(doc_type)) :
         LET doc == uploaded_files[idx + 1]
             r == run_ocr(api_key, outcome, doc)
             h == HandleExtracted(all_data, r, doc)
         IN  /\ invocations' = IF r.invoked THEN Append(invocations, tmp_path) ELSE invocations
             /\ all_data' = h.rows
             /\ notices' = notices \o r.errs \o h.shown
             /\ doc_log' = Append(doc_log, [doc |-> doc, key |-> api_key,
                                            none |-> r.none, val |-> r.val])
    /\ tmp_files' = tmp_files \ {tmp_path}
    /\ progress' = idx + 1
    /\ idx' = idx + 1
    /\ pc' = IF idx + 1 = Len(uploaded_files) THEN "aggregate" ELSE "doc"
    /\ UNCHANGED <<w_doc_type, w_files, api_key, data, current_doc_type, doc_type,
                   uploaded_files, tmp_path, table_at_start, run_start, runs, san_vars>>

\* if all_data: the frame is stored, st.success; else st.error("No data extracted...").
Aggregate ==
    /\ pc = "aggregate"
    /\ IF all_data # <<>>
       THEN /\ data' = DataFrame(all_data)
            /\ notices' = Append(notices, Notice("success", "complete", NoDoc))
       ELSE /\ data' = data
            /\ notices' = Append(notices, Notice("error", "batch_empty", NoDoc))
    /\ pc' = "done"
    /\ UNCHANGED <<w_doc_type, w_files, api_key, current_doc_type, doc_type,
                   uploaded_files, idx, all_data, tmp_path, progress, tmp_files,
                   invocations, doc_log, table_at_start, run_start, runs, san_vars>>

Init == MainInit /\ SanIdle
Next ==
    \/ SelectDocType
    \/ Upload
    \/ AnalyzeNothing
    \/ StartAnalysis
    \/ BeginDocument
    \/ ProcessDocument
    \/ Aggregate
Spec == Init /\ [][Next]_vars

\* ------------------------------------- specifications of the pure sanitizer

\* Any raw text put together from up to MaxSegs segments.
SanInit ==
    /\ MainInit
    /\ raw_text \in SegTexts(SanSegments, MaxSegs)
    /\ fenced = FALSE /\ f_prefix = <<>> /\ f_map = EmptyDict /\ f_suffix = <<>>
    /\ sanitized = EmptyDict /\ san_pc = "call"
SanNext == Sanitize
SanSpec == SanInit /\ [][SanNext]_vars

\* prose + a fenced json block with the serialization of a flat mapping + prose
FencedInit ==
    /\ MainInit
    /\ fenced = TRUE
    /\ f_prefix \in SegTexts(ProseSegments, MaxProse)
    /\ f_map \in FlatMaps
    /\ f_suffix \in ProseSuffixes
    /\ \E gap \in {<<>>, <<"\n">>} :
         raw_text = f_prefix \o FencedBlock(f_map, gap) \o f_suffix
    /\ sanitized = EmptyDict /\ san_pc = "call"
FencedNext == Sanitize
FencedSpec == FencedInit /\ [][FencedNext]_vars

\* ------------------------------------------------------------------ claims

Count(q, P(_)) == Cardinality({i \in 1..Len(q) : P(q[i])})
Contains(t, w) == \E i \in 1..Len(t) : StartsWith(t, i, w)

\* C1 (as claimed): when the direct parse fails and the fenced block found does
\* not parse, the brace-span layer is still tried, and its object is returned
\* if the span from the first '{' to the last '}' is valid JSON.
C1_FencedFailureFallsThrough ==
    ( /\ san_pc = "done"
      /\ ~JsonLoads(raw_text).ok
      /\ FenceSearch(raw_text).found
      /\ ~JsonLoads(FenceSearch(raw_text).group).ok
      /\ HasBraceSpan(raw_text)
      /\ JsonLoads(BraceSpan(raw_text)).ok )
    => sanitized = JsonLoads(BraceSpan(raw_text)).val

\* C2 (as claimed): a text with neither '{' nor '}' is sanitized to the empty
\* mapping, also when it is valid JSON that is not an object.
C2_NoBraceGivesEmptyMapping ==
    (san_pc = "done" /\ Find(raw_text, "{") = -1 /\ Find(raw_text, "}") = -1)
    => sanitized = EmptyDict

\* C3 (as claimed): prefix + fenced json block with the serialization of M +
\* suffix is sanitized to exactly M, whatever the prose holds.
C3_FencedBlockAlwaysRecovered ==
    (san_pc = "done" /\ fenced) => DictEq(sanitized, f_map)

\* A fence tagged json that (after optional whitespace) an opening brace follows.
EarlierFenceOpens(prefix) ==
    \E i \in 1..Len(prefix) :
        StartsWith(prefix, i, FenceTag) /\ At(prefix, GroupStart(prefix, i), "{")

\* C3 (amended): prefix + fenced json block with the serialization of M +
\* suffix is sanitized to exactly M, provided the prose before the block holds
\* no json fence tag followed (after optional whitespace) by '{' and the text
\* as a whole is not itself valid JSON.
C3_FencedBlockRecovered ==
    ( /\ san_pc = "done" /\ fenced
      /\ ~EarlierFenceOpens(f_prefix)
      /\ ~JsonLoads(raw_text).ok )
    => DictEq(sanitized, f_map)

\* C3 witness: a two-field mapping recovered from between prose that holds a
\* brace, a further fence and a non-empty suffix.
C3_Witness ==
    /\ san_pc = "done" /\ fenced
    /\ Len(f_map.keys) = 2
    /\ Find(f_prefix, "{") # -1 /\ Contains(f_prefix, Fence) /\ f_suffix # <<>>
    /\ ~EarlierFenceOpens(f_prefix) /\ ~JsonLoads(raw_text).ok
    /\ DictEq(sanitized, f_map)

\* A document failed extraction: run_ocr returned None (missing credential,
\* engine error, timeout, system error) or something other than a non-empty
\* mapping.
Failed(e) == e.none \/ ~(e.val.kind = "obj" /\ e.val.keys # <<>>)
Succeeded(e) == ~Failed(e)
IsWarning(n) == n.level = "warning"
LogDoc(e) == e.doc
RowDocument(row) == Lookup(row, DocumentKey).str
Map(q, F(_)) == [i \in 1..Len(q) |-> F(q[i])]

\* C4 (as claimed): after a run over n documents of which k failed, there are
\* exactly n - k rows, one per successful document, with its name, in upload
\* order, and exactly k warnings.
C4_RowsAndWarningsPerDocument ==
    pc = "done" =>
        LET n == Len(uploaded_files)
            k == Count(doc_log, Failed)
        IN  /\ Len(doc_log) = n
            /\ Len(all_data) = n - k
            /\ Map(all_data, RowDocument) = Map(SelectSeq(doc_log, Succeeded), LogDoc)
            /\ Count(notices, IsWarning) = k

\* C5 (as claimed): when a document starts processing, and when the script
\* has ended, no temporary file of an earlier document exists.
C5_NoTemporaryFileLeft ==
    (pc = "doc" \/ ScriptEnded) => tmp_files = {}

\* C6 (as claimed): the stored table's columns are Document and then exactly
\* the fields of the stored document type, and every row holds a number for
\* every field.
C6_RowsCoverTheSchema ==
    data.present =>
        /\ data.cols = <<DocumentKey>> \o Fields(current_doc_type)
        /\ \A i \in 1..Len(data.rows) :
             \A f \in SeqRange(Fields(current_doc_type)) :
                 /\ f \in KeySet(data.rows[i])
                 /\ Lookup(data.rows[i], f).kind = "num"

LastNotice == notices[Len(notices)]
C8_EveryDocumentIsProcessed ==
    pc \in {"done", "aborted"} =>
        /\ progress = Len(uploaded_files)
        /\ Map(doc_log, LogDoc) = uploaded_files
        /\ Len(invocations) <= Len(uploaded_files)
        /\ \A i, j \in 1..Len(invocations) : i # j => invocations[i] # invocations[j]

NoKey(e) == ~e.key
IsConfigError(n) == n.level = "error" /\ n.kind = "config"
\* C9: a document processed while the credential is unset gets no engine
\* invocation and one configuration error; the invocations of a run are those
\* of the documents processed with the credential set, so a run of n documents
\* without the credential has no invocation and n configuration errors.
C9_NoInvocationWithoutCredential ==
    /\ Len(invocations) = Len(doc_log) - Count(doc_log, NoKey)
    /\ Count(notices, IsConfigError) = Count(doc_log, NoKey)
    /\ \A i \in 1..Len(doc_log) :
         ~doc_log[i].key =>
            /\ <<runs, i>> \notin SeqRange(invocations)
            /\ doc_log[i].none
            /\ Notice("error", "config", doc_log[i].doc) \in SeqRange(notices)

\* C9 witness: a run of two documents has ended, the credential unset throughout.
C9_Witness ==
    /\ pc = "done" /\ Len(doc_log) = 2
    /\ \A i \in 1..Len(doc_log) : ~doc_log[i].key
    /\ invocations = <<>>
    /\ Count(notices, IsConfigError) = 2

PosIn(q, x) == CHOOSE i \in 1..Len(q) : q[i] = x
\* C10: a stored table holds only rows of documents uploaded in the run that
\* stored it, in upload order, and the document type stored with it is the
\* type selected when that run started.
C10_TableBelongsToItsRun ==
    data.present =>
        /\ current_doc_type = run_start.doc_type
        /\ Len(data.rows) >= 1
        /\ \A i \in 1..Len(data.rows) : RowDocument(data.rows[i]) \in SeqRange(run_start.files)
        /\ \A i, j \in 1..Len(data.rows) :
             i < j => PosIn(run_start.files, RowDocument(data.rows[i]))
                        < PosIn(run_start.files, RowDocument(data.rows[j]))

\* C10 witness: the table of a second run is stored, and the selector and the
\* uploads have been changed since without a new run.
C10_Witness ==
    /\ data.present /\ runs = 2 /\ pc = "idle"
    /\ w_doc_type # current_doc_type
    /\ w_files # run_start.files
    /\ current_doc_type = run_start.doc_type

====
